---- MODULE Spec2Model ----
(***************************************************************************)
(* Model of the cryptographic trust core of Fed_MPC_Web:                   *)
(*   backend/modules/crypto/models/key_pair.py      (KeyPair)              *)
(*   backend/modules/crypto/models/certificate.py   (Certificate)          *)
(*   backend/modules/crypto/models/signature.py     (SignatureRecord)      *)
(*   backend/modules/crypto/services/key_manager.py (KeyManager)           *)
(*   backend/modules/crypto/services/crypto_engine.py (CryptoEngine)       *)
(*                                                                         *)
(* The three tables are sequences indexed by the primary key `id`.  The    *)
(* clock datetime.utcnow() is the variable now, res is what the last call  *)
(* returned or raised, and sweep is the position of each running call of   *)
(* cleanup_expired_keys.  Cryptographic primitives                         *)
(* are modelled symbolically: a private key is a number, its public key is *)
(* the same number in a PEM wrapper, a password-protected container opens  *)
(* only under the passphrase that sealed it, a digest is injective on the  *)
(* byte strings of the model, and a signature verifies only under the      *)
(* public key, scheme, digest and bytes it was made with.                  *)
(***************************************************************************)
EXTENDS Integers, Sequences, FiniteSets, TLC

VARIABLES now, keys, certs, sigs, res, sweep

vars == <<now, keys, certs, sigs, res, sweep>>

(***************************************************************************)
(* Bounds of the model.                                                    *)
(***************************************************************************)
MaxTime == 1
MaxKeys == 1
MaxCount == 1
MaxCerts == 2
MaxSigs == 1
MaxSweeps == 2

(***************************************************************************)
(* Values standing for Python's None.                                      *)
(***************************************************************************)
NoTime == -1
NoUser == 0
NoId == 0

Users == {1, 2}
Callers == Users \cup {NoUser}
KeyIds == 1..MaxKeys
Times == 0..MaxTime

KeyTypes == {"rsa", "ecc"}
KeyUsages == {"encryption", "signing", "both"}
RsaKeySizes == {1024, 2048, 3072, 4096}
EccKeySizes == {256, 384, 521}
KeyStatuses == {"active", "expired", "revoked", "archived"}

(* Passphrases a caller can type; NonePass is an omitted passphrase, and    *)
(* RandomPass the secrets.token_urlsafe(32) value no caller knows.          *)
NonePass == "<none>"
RandomPass == "<random>"
Passphrases == {"", "p", "q"}
DayChoices == {-1, 0, 1}
ExportFormats == {"PEM", "DER", "JWK"}

(***************************************************************************)
(* Symbolic cryptography.                                                  *)
(***************************************************************************)
EmptyText == <<>>

(* serialization PEM of the public half of private key n *)
PublicPem(n) == <<"pem", n>>

(* BestAvailableEncryption: PKCS8 container of private key n sealed by p *)
EncryptPrivate(n, p) == <<"pkcs8", n, p>>

(* hashlib.pbkdf2_hmac('sha256', passphrase, salt, 100000).hex() *)
Pbkdf2(p, salt) == <<"pbkdf2", p, salt>>

(* hashlib.sha256(public_key_pem).hexdigest()[:32] *)
_generate_fingerprint(pem) == <<"fp", pem>>

(***************************************************************************)
(* KeyPair                                                                 *)
(***************************************************************************)
verify_passphrase(k, p) == Pbkdf2(p, k.salt) = k.password_hash

(* get_private_key opening the container under any passphrase *)
MutGetPrivateKey(k, p) ==
    IF k.private_key_encrypted = EmptyText THEN NoId
    ELSE k.private_key_encrypted[2]

(* load_pem_private_key: the private key, or NoId when it raises (empty  *)
(* container, empty password, or a password that did not seal it)        *)
get_private_key(k, p) ==
    IF k.private_key_encrypted = EmptyText THEN NoId
    ELSE IF p = "" THEN NoId
    ELSE IF k.private_key_encrypted[3] = p THEN k.private_key_encrypted[2]
    ELSE NoId

(* the calls the body of get_private_key makes on the stored secrets, in  *)
(* order: it hands the container and the passphrase to                    *)
(* load_pem_private_key and calls nothing before it                       *)
get_private_key_steps(k, p) == <<"load_pem_private_key">>

is_expired(k) == IF k.expires_at = NoTime THEN FALSE ELSE now > k.expires_at

update_usage(k) ==
    [k EXCEPT !.usage_count = @ + 1, !.last_used_at = now]

KeyPair_revoke(k) == [k EXCEPT !.status = "revoked"]

KeyPair_archive(k) == [k EXCEPT !.status = "archived"]

extend_expiry(k, days) ==
    IF k.expires_at # NoTime
    THEN [k EXCEPT !.expires_at = @ + days]
    ELSE [k EXCEPT !.expires_at = now + days]

(* KeyPair.generate_key_pair + save: row n, fresh key material n *)
generate_key_pair(n, kid, u, t, size, usage, p, exp) ==
    LET pw == IF p = NonePass THEN RandomPass ELSE p
    IN [key_id |-> kid, user_id |-> u, key_type |-> t, key_size |-> size,
        key_usage |-> usage, status |-> "active",
        expires_at |-> exp, usage_count |-> 0, last_used_at |-> NoTime,
        public_key_pem |-> PublicPem(n),
        private_key_encrypted |-> EncryptPrivate(n, pw),
        salt |-> n, password_hash |-> Pbkdf2(pw, n),
        fingerprint |-> _generate_fingerprint(PublicPem(n))]

(* KeyPair.get_by_key_id: the row id, or NoId *)
get_by_key_id(kid) ==
    IF \E i \in 1..Len(keys) : keys[i].key_id = kid
    THEN CHOOSE i \in 1..Len(keys) : keys[i].key_id = kid
    ELSE NoId

(***************************************************************************)
(* KeyManager                                                              *)
(***************************************************************************)
(* get_key_by_id without the ownership check *)
MutGetKeyById(kid, caller) == get_by_key_id(kid)

(* the row id get_key_by_id returns, NoId for None *)
get_key_by_id(kid, caller) ==
    LET i == get_by_key_id(kid)
    IN IF caller # NoUser /\ i # NoId /\ keys[i].user_id # caller
       THEN NoId ELSE i

Result(op, ok, id, out) == [op |-> op, ok |-> ok, id |-> id, out |-> out]

FreshKeyId == CHOOSE kid \in KeyIds : get_by_key_id(kid) = NoId

UnchangedOthers == UNCHANGED <<sweep, now, certs, sigs>>

(* _validate_key_parameters accepting every size of an ECC key *)
MutValidateKeyParameters(t, size, usage) ==
    /\ t \in KeyTypes
    /\ usage \in KeyUsages
    /\ t = "rsa" => size \in RsaKeySizes

(* _validate_key_parameters: TRUE when it returns, FALSE when it raises *)
_validate_key_parameters(t, size, usage) ==
    /\ t \in KeyTypes
    /\ usage \in KeyUsages
    /\ t = "rsa" => size \in RsaKeySizes
    /\ t = "ecc" => size \in EccKeySizes

(* the key size a caller passes in the specifications that do not vary it *)
UsualSize(t) == IF t = "rsa" THEN 2048 ELSE 256

create_key_pair(u, t, size, usage, p, exp) ==
    /\ Len(keys) < MaxKeys
    /\ UnchangedOthers
    /\ IF ~_validate_key_parameters(t, size, usage)
       THEN /\ keys' = keys
            /\ res' = Result("create_key_pair", FALSE, NoId, "invalid")
       ELSE IF p = ""
       THEN /\ keys' = keys
            /\ res' = Result("create_key_pair", FALSE, NoId, "error")
       ELSE /\ keys' = Append(keys, generate_key_pair(Len(keys) + 1, FreshKeyId,
                                                      u, t, size, usage, p, exp))
            /\ res' = Result("create_key_pair", TRUE, Len(keys) + 1, "created")

export_public_key(kid, fmt, caller) ==
    LET i == get_key_by_id(kid, caller)
    IN /\ UnchangedOthers
       /\ IF i = NoId
          THEN /\ keys' = keys
               /\ res' = Result("export_public_key", FALSE, NoId, "error")
          ELSE /\ keys[i].usage_count < MaxCount
               /\ keys' = [keys EXCEPT ![i] = update_usage(@)]
               /\ res' = IF fmt \in {"PEM", "DER"}
                         THEN Result("export_public_key", TRUE, i, "exported")
                         ELSE Result("export_public_key", FALSE, i, "error")

(* revoke_key without its status check *)
MutRevokeGuard(k) == TRUE
RevokeGuard(k) == k.status = "active"

revoke_key(kid, caller) ==
    LET i == get_key_by_id(kid, caller)
    IN /\ UnchangedOthers
       /\ IF i = NoId
          THEN /\ keys' = keys
               /\ res' = Result("revoke_key", FALSE, NoId, "error")
          ELSE IF ~RevokeGuard(keys[i])
          THEN /\ keys' = keys
               /\ res' = Result("revoke_key", FALSE, i, "error")
          ELSE /\ keys' = [keys EXCEPT ![i] = KeyPair_revoke(@)]
               /\ res' = Result("revoke_key", TRUE, i, "revoked")

ArchiveGuard(k) == k.status # "active"

archive_key(kid, caller) ==
    LET i == get_key_by_id(kid, caller)
    IN /\ UnchangedOthers
       /\ IF i = NoId
          THEN /\ keys' = keys
               /\ res' = Result("archive_key", FALSE, NoId, "error")
          ELSE IF ~ArchiveGuard(keys[i])
          THEN /\ keys' = keys
               /\ res' = Result("archive_key", FALSE, i, "error")
          ELSE /\ keys' = [keys EXCEPT ![i] = KeyPair_archive(@)]
               /\ res' = Result("archive_key", TRUE, i, "archived")

(* extend_key_expiry accepting an expired key as well *)
MutExtendGuard(k) == k.status \in {"active", "expired"}
ExtendGuard(k) == k.status = "active"

extend_key_expiry(kid, days, caller) ==
    LET i == get_key_by_id(kid, caller)
    IN /\ UnchangedOthers
       /\ IF i = NoId
          THEN /\ keys' = keys
               /\ res' = Result("extend_key_expiry", FALSE, NoId, "error")
          ELSE IF ~ExtendGuard(keys[i])
          THEN /\ keys' = keys
               /\ res' = Result("extend_key_expiry", FALSE, i, "error")
          ELSE /\ extend_expiry(keys[i], days).expires_at \in Times
               /\ keys' = [keys EXCEPT ![i] = extend_expiry(@, days)]
               /\ res' = Result("extend_key_expiry", TRUE, i, "extended")

(* the query of cleanup_expired_keys without its status filter *)
MutSweepCandidate(k) == k.expires_at # NoTime /\ k.expires_at < now

(* the query of cleanup_expired_keys *)
SweepCandidate(k) ==
    k.expires_at # NoTime /\ k.expires_at < now /\ k.status = "active"

cleanup_expired_keys ==
    LET hit == {i \in 1..Len(keys) : SweepCandidate(keys[i])}
    IN /\ UnchangedOthers
       /\ keys' = [i \in 1..Len(keys) |->
                     IF i \in hit THEN [keys[i] EXCEPT !.status = "expired"]
                     ELSE keys[i]]
       /\ res' = Result("cleanup_expired_keys", TRUE, Cardinality(hit), "count")

(* cleanup_expired_keys running beside other requests, one running call  *)
(* per sweeper: sweep[w].todo is the part of the list expired_keys the    *)
(* loop has not reached, sweep[w].count the local count                   *)
Sweepers == 1..MaxSweeps
Idle == [pc |-> "idle", todo |-> {}, count |-> 0]

(* the query and .all() of cleanup_expired_keys *)
SweepQuery(w) ==
    /\ sweep[w].pc = "idle"
    /\ sweep' = [sweep EXCEPT ![w] =
                   [pc |-> "loop",
                    todo |-> {i \in 1..Len(keys) : SweepCandidate(keys[i])},
                    count |-> 0]]
    /\ UNCHANGED <<now, keys, certs, sigs, res>>

(* one pass of the loop: key_pair.status = EXPIRED; key_pair.save() on an *)
(* object loaded by the query                                             *)
SweepWrite(w) ==
    /\ sweep[w].pc = "loop"
    /\ \E i \in sweep[w].todo :
          /\ keys' = [keys EXCEPT ![i].status = "expired"]
          /\ sweep' = [sweep EXCEPT ![w].todo = @ \ {i}, ![w].count = @ + 1]
    /\ UNCHANGED <<now, certs, sigs, res>>

(* return count *)
SweepReturn(w) ==
    /\ sweep[w].pc = "loop"
    /\ sweep[w].todo = {}
    /\ sweep' = [sweep EXCEPT ![w] = Idle]
    /\ res' = Result("cleanup_expired_keys", TRUE, sweep[w].count, "count")
    /\ UNCHANGED <<now, keys, certs, sigs>>

(* what a backup can carry in 'public_key' and 'fingerprint' *)
BackupPems == {PublicPem(n) : n \in KeyIds}

(* a restore that also brings back a private-key container *)
MutRestoredKey(kid, u, pem, fp) ==
    [key_id |-> kid, user_id |-> u, key_type |-> "rsa", key_size |-> 2048,
     key_usage |-> "both", status |-> "active",
     expires_at |-> NoTime, usage_count |-> 0, last_used_at |-> NoTime,
     public_key_pem |-> pem, private_key_encrypted |-> EncryptPrivate(pem[2], "p"),
     salt |-> EmptyText, password_hash |-> EmptyText, fingerprint |-> fp]

(* the row restore_key_from_backup saves *)
restored_key(kid, u, pem, fp) ==
    [key_id |-> kid, user_id |-> u, key_type |-> "rsa", key_size |-> 2048,
     key_usage |-> "both", status |-> "active",
     expires_at |-> NoTime, usage_count |-> 0, last_used_at |-> NoTime,
     public_key_pem |-> pem, private_key_encrypted |-> EmptyText,
     salt |-> EmptyText, password_hash |-> EmptyText, fingerprint |-> fp]

RestoreExists(kid) == get_by_key_id(kid) # NoId

restore_key_from_backup(kid, u, pem, fp) ==
    /\ UnchangedOthers
    /\ IF RestoreExists(kid)
       THEN /\ keys' = keys
            /\ res' = Result("restore_key_from_backup", FALSE, NoId, "error")
       ELSE /\ Len(keys) < MaxKeys
            /\ keys' = Append(keys, restored_key(kid, u, pem, fp))
            /\ res' = Result("restore_key_from_backup", TRUE, Len(keys) + 1, "restored")

generate_key_backup(kid, p, caller) ==
    LET i == get_key_by_id(kid, caller)
    IN /\ UnchangedOthers
       /\ keys' = keys
       /\ IF i = NoId
          THEN res' = Result("generate_key_backup", FALSE, NoId, "error")
          ELSE IF ~verify_passphrase(keys[i], p)
          THEN res' = Result("generate_key_backup", FALSE, i, "error")
          ELSE res' = Result("generate_key_backup", TRUE, i, "backup")

validate_key_passphrase(kid, p, caller) ==
    LET i == get_key_by_id(kid, caller)
    IN /\ UnchangedOthers
       /\ keys' = keys
       /\ IF i = NoId
          THEN res' = Result("validate_key_passphrase", FALSE, NoId,
                             [pass |-> p, key |-> NoId])
          ELSE res' = Result("validate_key_passphrase",
                             verify_passphrase(keys[i], p), i,
                             [pass |-> p, key |-> NoId])

(* a direct call of KeyPair.get_private_key on row i; res.out.key is the *)
(* key material handed out, NoId when the call raises                    *)
KeyPair_get_private_key(i, p) ==
    /\ i \in 1..Len(keys)
    /\ UnchangedOthers
    /\ keys' = keys
    /\ res' = Result("get_private_key", get_private_key(keys[i], p) # NoId, i,
                     [pass |-> p, key |-> get_private_key(keys[i], p),
                      steps |-> get_private_key_steps(keys[i], p)])

(***************************************************************************)
(* Certificate                                                             *)
(***************************************************************************)
CertStatuses == {"valid", "expired", "revoked", "suspended"}

(* KeyPair.get_public_key: the public key object of a PEM *)
get_public_key(k) == k.public_key_pem[2]

Certificate_is_expired(c) == now > c.valid_until

(* a distinguished name is the list of the KEY=value parts of its text *)
Dn(u) == <<(<<"CN", u>>)>>
RawDn(u) == <<(<<"cn", u>>), (<<"UID", u>>)>>
DnKeys == {"CN", "O", "OU", "C", "ST", "L", "EMAIL"}

(* key.strip().upper() on the keys of the model *)
Upper(k) == IF k = "cn" THEN "CN" ELSE k

KnownPart(part) == Upper(part[1]) \in DnKeys

(* _parse_dn: the x509.Name built from the parts with a known key *)
_parse_dn(dn) ==
    LET kept == SelectSeq(dn, KnownPart)
    IN [i \in 1..Len(kept) |-> <<Upper(kept[i][1]), kept[i][2]>>]

(* _format_dn: KEY=value for every attribute of the name *)
_format_dn(name) == name

(* Certificate.__init__: the instance before generate_certificate *)
NewCertificate(u, kp, dn) ==
    [user_id |-> u, key_pair_id |-> kp, parent_cert_id |-> NoId,
     subject_dn |-> dn, issuer_dn |-> EmptyText,
     status |-> "valid", valid_from |-> NoTime, valid_until |-> NoTime,
     public_key |-> NoId, signer |-> NoId, revoked_at |-> NoTime]

(* the fields generate_certificate has assigned when it reaches the        *)
(* builder: validity, issuer name and parent                               *)
BeforeSign(self, days, issuer) ==
    [self EXCEPT !.valid_from = now, !.valid_until = now + days,
                 !.issuer_dn = IF issuer # NoId
                               THEN _format_dn(_parse_dn(certs[issuer].subject_dn))
                               ELSE self.subject_dn,
                 !.parent_cert_id = IF issuer # NoId THEN issuer ELSE @]

(* generate_certificate on instance self: the instance after it returned. *)
(* signer is the private key handed to builder.sign                        *)
generate_certificate(self, priv, days, issuer, issuer_key) ==
    [BeforeSign(self, days, issuer) EXCEPT
        !.public_key = get_public_key(keys[self.key_pair_id]),
        !.signer = IF issuer_key # NoId THEN issuer_key ELSE priv]

create_certificate(u, kp, p, days, issuer, issuer_key, dn) ==
    LET priv == IF kp \in 1..Len(keys) THEN get_private_key(keys[kp], p)
                ELSE NoId
    IN /\ Len(certs) < MaxCerts
       /\ issuer \in {NoId} \cup (1..Len(certs))
       /\ UNCHANGED <<sweep, now, keys, sigs>>
       /\ IF kp \notin 1..Len(keys) \/ priv = NoId \/ days < 0
          THEN /\ certs' = certs
               /\ res' = Result("create_certificate", FALSE, NoId, "error")
          ELSE /\ now + days \in Times
               /\ certs' = Append(certs,
                     generate_certificate(NewCertificate(u, kp, dn), priv, days,
                                          issuer, issuer_key))
               /\ res' = Result("create_certificate", TRUE, Len(certs) + 1, "created")

(* generate_certificate called again on stored certificate c; the object  *)
(* belongs to the session, so what the call assigned is what the next     *)
(* commit stores, also when the builder raised on a negative validity     *)
Certificate_generate_certificate(c, p, days, issuer, issuer_key) ==
    LET priv == get_private_key(keys[certs[c].key_pair_id], p)
    IN /\ c \in 1..Len(certs)
       /\ issuer \in {NoId} \cup (1..Len(certs))
       /\ UNCHANGED <<sweep, now, keys, sigs>>
       /\ IF priv = NoId
          THEN /\ certs' = certs
               /\ res' = Result("generate_certificate", FALSE, c, "error")
          ELSE IF days < 0
          THEN /\ now + days \in Times
               /\ certs' = [certs EXCEPT ![c] = BeforeSign(@, days, issuer)]
               /\ res' = Result("generate_certificate", FALSE, c, "error")
          ELSE /\ now + days \in Times
               /\ certs' = [certs EXCEPT ![c] =
                               generate_certificate(@, priv, days, issuer, issuer_key)]
               /\ res' = Result("generate_certificate", TRUE, c, "generated")

(* days_until_expiry: 0 for an expired certificate *)
days_until_expiry(c) ==
    IF Certificate_is_expired(c) THEN 0 ELSE c.valid_until - now

(* get_cert_info: the summary it returns; nothing is written *)
get_cert_info(c) ==
    /\ c \in 1..Len(certs)
    /\ UNCHANGED <<sweep, now, keys, certs, sigs>>
    /\ res' = Result("get_cert_info", TRUE, c,
                     [status |-> certs[c].status,
                      is_expired |-> Certificate_is_expired(certs[c]),
                      days_until_expiry |-> days_until_expiry(certs[c])])

(* Certificate.to_dict: the dictionary it returns; nothing is written *)
Certificate_to_dict(c) ==
    /\ c \in 1..Len(certs)
    /\ UNCHANGED <<sweep, now, keys, certs, sigs>>
    /\ res' = Result("cert_to_dict", TRUE, c,
                     [status |-> certs[c].status,
                      is_expired |-> Certificate_is_expired(certs[c]),
                      days_until_expiry |-> days_until_expiry(certs[c])])

Certificate_revoke(c) ==
    /\ c \in 1..Len(certs)
    /\ UNCHANGED <<sweep, now, keys, sigs>>
    /\ certs' = [certs EXCEPT ![c].status = "revoked", ![c].revoked_at = now]
    /\ res' = Result("cert_revoke", TRUE, c, "revoked")

Certificate_suspend(c) ==
    /\ c \in 1..Len(certs)
    /\ UNCHANGED <<sweep, now, keys, sigs>>
    /\ certs' = [certs EXCEPT ![c].status = "suspended"]
    /\ res' = Result("cert_suspend", TRUE, c, "suspended")

Certificate_reactivate(c) ==
    /\ c \in 1..Len(certs)
    /\ UNCHANGED <<sweep, now, keys, sigs>>
    /\ certs' = IF ~Certificate_is_expired(certs[c])
                THEN [certs EXCEPT ![c].status = "valid"]
                ELSE certs
    /\ res' = Result("cert_reactivate", TRUE, c, "returned")

(* public_key.verify(signature, data, *rest) of the cryptography library:  *)
(* an RSA key takes a padding and a hash after the data, an EC key takes   *)
(* one ECDSA scheme; with any other argument list the call raises          *)
VerifyArgsAccepted(t, rest) ==
    IF t = "rsa"
    THEN Len(rest) = 2 /\ rest[1] \in {"pkcs1v15", "pss"}
                       /\ rest[2] \in {"sha256", "sha384", "sha512"}
    ELSE Len(rest) = 1 /\ rest[1] = "ecdsa"

(* the signature builder.sign put on c is the one of public key pk *)
SignedBy(c, pk) == c.signer = pk

(* issuer_public_key.verify(cert.signature, cert.tbs_certificate_bytes,    *)
(* cert.signature_algorithm_oid): TRUE when it returns, FALSE when it      *)
(* raises                                                                  *)
IssuerVerify(c, ic) ==
    /\ VerifyArgsAccepted(keys[ic.key_pair_id].key_type,
                          <<"signature_algorithm_oid">>)
    /\ SignedBy(c, ic.public_key)

(* Certificate.verify_certificate of certificate c against certificate     *)
(* row issuer, NoId when no issuer_cert is passed                          *)
verify_certificate(c, issuer) ==
    IF now < c.valid_from \/ now > c.valid_until
    THEN [ok |-> FALSE, reason |-> "window"]
    ELSE IF issuer # NoId /\ ~IssuerVerify(c, certs[issuer])
    THEN [ok |-> FALSE, reason |-> "signature"]
    ELSE [ok |-> TRUE, reason |-> "valid"]

VerifyCertificate(c, issuer) ==
    /\ c \in 1..Len(certs)
    /\ issuer \in {NoId} \cup (1..Len(certs))
    /\ UNCHANGED <<sweep, now, keys, certs, sigs>>
    /\ res' = Result("verify_certificate", verify_certificate(certs[c], issuer).ok,
                     c, [issuer |-> issuer,
                         reason |-> verify_certificate(certs[c], issuer).reason])

(***************************************************************************)
(* SignatureRecord                                                         *)
(***************************************************************************)
SignatureTypes == {"rsa_pkcs1", "rsa_pss", "ecdsa"}
HashAlgorithms == {"sha256", "sha384", "sha512",
                   "sha3_256", "sha3_384", "sha3_512"}
SigStatuses == {"valid", "invalid", "expired", "revoked"}

(* payloads: two byte strings and the text whose UTF-8 encoding is the first *)
Bytes(t) == [kind |-> "bytes", text |-> t]
Str(t) == [kind |-> "str", text |-> t]
Payloads == {Bytes("a"), Bytes("b"), Str("a")}

(* hash_func(data).hexdigest(), after data.encode('utf-8') for a str *)
_calculate_data_hash(halg, d) == <<halg, d.text>>

b64encode(x) == <<"b64", x>>
b64decode(x) == x[2]

KeyFamily(stype) == IF stype = "ecdsa" THEN "ecc" ELSE "rsa"

(* private_key.sign always digesting with SHA-256 *)
MutPrivateSign(k, priv, stype, halg, d) ==
    IF d.kind # "bytes" \/ KeyFamily(stype) # k.key_type THEN EmptyText
    ELSE <<"sig", priv, stype, "sha256", d.text>>

(* private_key.sign: the signature bytes, or EmptyText when it raises (a  *)
(* str payload, or a scheme whose arguments the key's family rejects)     *)
PrivateSign(k, priv, stype, halg, d) ==
    IF d.kind # "bytes" \/ KeyFamily(stype) # k.key_type THEN EmptyText
    ELSE <<"sig", priv, stype, halg, d.text>>

(* public_key.verify: TRUE when it returns, FALSE when it raises *)
PublicVerify(pk, sigbytes, stype, halg, d) ==
    d.kind = "bytes" /\ sigbytes = <<"sig", pk, stype, halg, d.text>>

sign_data(u, d, kp, stype, halg, priv, cref) ==
    [user_id |-> u, key_pair_id |-> kp, certificate_id |-> cref,
     signature_type |-> stype, hash_algorithm |-> halg,
     original_data_hash |-> _calculate_data_hash(halg, d),
     signature_value |-> b64encode(PrivateSign(keys[kp], priv, stype, halg, d)),
     status |-> "valid", verified_count |-> 0, last_verified_at |-> NoTime,
     timestamp_value |-> NoTime, metadata |-> {}]

create_signature(u, d, kp, stype, halg, p, cref) ==
    LET priv == get_private_key(keys[kp], p)
    IN /\ Len(sigs) < MaxSigs
       /\ kp \in 1..Len(keys)
       /\ cref \in {NoId} \cup (1..Len(certs))
       /\ UNCHANGED <<sweep, now, certs>>
       /\ IF priv = NoId \/ PrivateSign(keys[kp], priv, stype, halg, d) = EmptyText
          THEN /\ UNCHANGED <<keys, sigs>>
               /\ res' = Result("create_signature", FALSE, kp, "error")
          ELSE /\ keys[kp].usage_count < MaxCount
               /\ sigs' = Append(sigs, sign_data(u, d, kp, stype, halg, priv, cref))
               /\ keys' = [keys EXCEPT ![kp] = update_usage(@)]
               /\ res' = Result("create_signature", TRUE, kp, "signed")

Outcome(s, ok, reason, lookup, math) ==
    [sig |-> s, ok |-> ok, reason |-> reason, lookup |-> lookup, math |-> math]

(* the public key verify_signature ends up with, NoId when none is found *)
LookupPublicKey(s, pk) ==
    IF pk # NoId THEN pk
    ELSE IF s.key_pair_id # NoId THEN get_public_key(keys[s.key_pair_id])
    ELSE IF s.certificate_id # NoId THEN certs[s.certificate_id].public_key
    ELSE NoId

(* a successful verification that also puts the record back to valid *)
MutCounted(s) ==
    [s EXCEPT !.verified_count = @ + 1, !.last_verified_at = now,
              !.status = "valid"]

(* the bookkeeping of a verification that passed the signature check *)
Counted(s) == [s EXCEPT !.verified_count = @ + 1, !.last_verified_at = now]

(* verify_signature without the comparison of the recomputed hash *)
MutVerifySignature(s, d, pk) ==
    LET key == LookupPublicKey(s, pk)
    IN IF key = NoId
       THEN Outcome(s, FALSE, "no_public_key", pk = NoId, FALSE)
       ELSE IF ~PublicVerify(key, b64decode(s.signature_value),
                             s.signature_type, s.hash_algorithm, d)
       THEN Outcome([s EXCEPT !.status = "invalid"], FALSE, "failed",
                    pk = NoId, TRUE)
       ELSE Outcome(Counted(s), TRUE, "success", pk = NoId, TRUE)

(* SignatureRecord.verify_signature: the record it saves and what it       *)
(* returns; lookup and math tell whether the public-key lookup and the     *)
(* signature mathematics were reached                                      *)
verify_signature(s, d, pk) ==
    LET key == LookupPublicKey(s, pk)
    IN IF _calculate_data_hash(s.hash_algorithm, d) # s.original_data_hash
       THEN Outcome([s EXCEPT !.status = "invalid"], FALSE, "tampered",
                    FALSE, FALSE)
       ELSE IF key = NoId
       THEN Outcome(s, FALSE, "no_public_key", pk = NoId, FALSE)
       ELSE IF ~PublicVerify(key, b64decode(s.signature_value),
                             s.signature_type, s.hash_algorithm, d)
       THEN Outcome([s EXCEPT !.status = "invalid"], FALSE, "failed",
                    pk = NoId, TRUE)
       ELSE IF s.certificate_id # NoId
               /\ Certificate_is_expired(certs[s.certificate_id])
       THEN Outcome([Counted(s) EXCEPT !.status = "expired"], FALSE,
                    "expired_cert", pk = NoId, TRUE)
       ELSE Outcome(Counted(s), TRUE, "success", pk = NoId, TRUE)

VerifySignature(i, d, pk) ==
    LET r == verify_signature(sigs[i], d, pk)
    IN /\ i \in 1..Len(sigs)
       /\ r.sig.verified_count <= MaxCount
       /\ UNCHANGED <<sweep, now, keys, certs>>
       /\ sigs' = [sigs EXCEPT ![i] = r.sig]
       /\ res' = Result("verify_signature", r.ok, i,
                        [reason |-> r.reason, lookup |-> r.lookup,
                         math |-> r.math, data |-> d, pk |-> pk])

(* metadata[key] = value on the JSON dictionary, a set of key-value pairs *)
set_metadata(md, key, value) ==
    {m \in md : m[1] # key} \cup {<<key, value>>}

revoke_signature(i) ==
    /\ i \in 1..Len(sigs)
    /\ UNCHANGED <<sweep, now, keys, certs>>
    /\ sigs' = [sigs EXCEPT ![i].status = "revoked",
                            ![i].metadata =
                               set_metadata(set_metadata(@, "revocation_reason",
                                                         "Manual revocation"),
                                            "revoked_at", now)]
    /\ res' = Result("revoke_signature", TRUE, i, "revoked")

add_timestamp(i) ==
    /\ i \in 1..Len(sigs)
    /\ UNCHANGED <<sweep, now, keys, certs>>
    /\ sigs' = [sigs EXCEPT ![i].timestamp_value = now]
    /\ res' = Result("add_timestamp", TRUE, i, "stamped")

(***************************************************************************)
(* CryptoEngine                                                            *)
(***************************************************************************)
(* how far below the single-block capacity and above the switch point the  *)
(* plaintext lengths reach                                                 *)
LenSlack == 2

Sha256Len == 32

(* the longest message public_key.encrypt takes under OAEP with SHA-256 *)
OaepCapacity(k) == k \div 8 - 2 * Sha256Len - 2

(* max_length of _encrypt_rsa *)
max_length(k) == k \div 8 - 42

(* a byte string of n bytes *)
Plain(n) == [kind |-> "bytes", text |-> "m", len |-> n]

PlainLengths(k) ==
    {0} \cup ((OaepCapacity(k) - LenSlack)..(max_length(k) + LenSlack))

RsaPublic(k, n) == [key_size |-> k, n |-> n]

(* generate_symmetric_key('aes', 256): secrets.token_bytes(256 // 8) *)
generate_symmetric_key == [kind |-> "bytes", text |-> "aes", len |-> 256 \div 8]

(* public_key.encrypt under OAEP: EmptyText when it raises *)
RsaEncrypt(pub, m) ==
    IF m.len > OaepCapacity(pub.key_size) THEN EmptyText
    ELSE <<"oaep", pub, m>>

(* private_key.decrypt under OAEP: EmptyText when it raises *)
RsaDecrypt(priv, c) ==
    IF c = EmptyText THEN EmptyText
    ELSE IF c[2] # priv THEN EmptyText
    ELSE c[3]

_encrypt_aes(m, key) == <<"gcm", key, m>>

_decrypt_aes(c, key) ==
    IF c = EmptyText \/ key = EmptyText THEN EmptyText
    ELSE IF c[2] # key THEN EmptyText
    ELSE c[3]

Envelope(alg, ct, ek, ed) ==
    [algorithm |-> alg, ciphertext |-> ct, encrypted_key |-> ek,
     encrypted_data |-> ed]

(* _encrypt_rsa: the dictionary returned, algorithm "raised" when the call *)
(* raises                                                                  *)
_encrypt_rsa(m, pub) ==
    IF m.len <= max_length(pub.key_size)
    THEN IF RsaEncrypt(pub, m) = EmptyText
         THEN Envelope("raised", EmptyText, EmptyText, EmptyText)
         ELSE Envelope("rsa", b64encode(RsaEncrypt(pub, m)), EmptyText,
                       EmptyText)
    ELSE IF RsaEncrypt(pub, generate_symmetric_key) = EmptyText
         THEN Envelope("raised", EmptyText, EmptyText, EmptyText)
         ELSE Envelope("rsa_hybrid", EmptyText,
                       b64encode(RsaEncrypt(pub, generate_symmetric_key)),
                       _encrypt_aes(m, generate_symmetric_key))

(* the branch _encrypt_rsa takes *)
EncryptPath(m, pub) ==
    IF m.len <= max_length(pub.key_size) THEN "direct" ELSE "hybrid"

(* encrypt_asymmetric: a str is encoded to bytes first *)
encrypt_asymmetric(d, pub) == _encrypt_rsa([d EXCEPT !.kind = "bytes"], pub)

(* _decrypt_rsa: the plaintext, EmptyText when the call raises *)
_decrypt_rsa(e, priv) ==
    IF e.algorithm = "rsa"
    THEN RsaDecrypt(priv, b64decode(e.ciphertext))
    ELSE IF e.algorithm = "rsa_hybrid"
    THEN _decrypt_aes(e.encrypted_data,
                      RsaDecrypt(priv, b64decode(e.encrypted_key)))
    ELSE EmptyText

decrypt_asymmetric(e, priv) == _decrypt_rsa(e, priv)

EncryptAsymmetric(k, n, len) ==
    /\ UNCHANGED <<sweep, now, keys, certs, sigs>>
    /\ res' = Result("encrypt_asymmetric",
                     encrypt_asymmetric(Plain(len), RsaPublic(k, n)).algorithm
                        # "raised",
                     k,
                     [plain |-> Plain(len), key |-> n,
                      path |-> EncryptPath(Plain(len), RsaPublic(k, n)),
                      envelope |-> encrypt_asymmetric(Plain(len), RsaPublic(k, n))])

(* decrypt_asymmetric of the dictionary the last encrypt_asymmetric made,  *)
(* with private key n of the same size                                     *)
DecryptAsymmetric(n) ==
    /\ res.op = "encrypt_asymmetric" /\ res.ok
    /\ UNCHANGED <<sweep, now, keys, certs, sigs>>
    /\ res' = Result("decrypt_asymmetric",
                     decrypt_asymmetric(res.out.envelope, RsaPublic(res.id, n))
                        # EmptyText,
                     res.id,
                     [plain |-> res.out.plain, key |-> res.out.key,
                      with |-> n, path |-> res.out.path,
                      result |-> decrypt_asymmetric(res.out.envelope,
                                                    RsaPublic(res.id, n))])

add_metadata(i, key, value) ==
    /\ i \in 1..Len(sigs)
    /\ UNCHANGED <<sweep, now, keys, certs>>
    /\ sigs' = [sigs EXCEPT ![i].metadata = set_metadata(@, key, value)]
    /\ res' = Result("add_metadata", TRUE, i, "added")

Tick ==
    /\ now < MaxTime
    /\ now' = now + 1
    /\ res' = Result("tick", TRUE, NoId, "tick")
    /\ UNCHANGED <<keys, certs, sigs, sweep>>

Init ==
    /\ now = 0
    /\ keys = <<>>
    /\ certs = <<>>
    /\ sigs = <<>>
    /\ res = Result("init", TRUE, NoId, "init")
    /\ sweep = [w \in Sweepers |-> Idle]

(***************************************************************************)
(* Key lifecycle under the KeyManager.                                     *)
(***************************************************************************)
NextKM ==
    \/ \E exp \in {NoTime, 0} : create_key_pair(1, "rsa", 2048, "both", "p", exp)
    \/ \E kid \in KeyIds, fmt \in ExportFormats :
          export_public_key(kid, fmt, NoUser)
    \/ \E kid \in KeyIds : revoke_key(kid, NoUser)
    \/ \E kid \in KeyIds : archive_key(kid, NoUser)
    \/ \E kid \in KeyIds, d \in DayChoices : extend_key_expiry(kid, d, NoUser)
    \/ cleanup_expired_keys
    \/ \E kid \in KeyIds :
          restore_key_from_backup(kid, 1, PublicPem(kid),
                                  _generate_fingerprint(PublicPem(kid)))
    \/ Tick

SpecKM == Init /\ [][NextKM]_vars

(***************************************************************************)
(* Passphrase custody of a key pair.                                       *)
(***************************************************************************)
NextPass ==
    \/ \E u \in Users, t \in KeyTypes, p \in Passphrases \cup {NonePass} :
          create_key_pair(u, t, UsualSize(t), "both", p, NoTime)
    \/ \E kid \in KeyIds, u \in Users, pem \in BackupPems :
          restore_key_from_backup(kid, u, pem, _generate_fingerprint(pem))
    \/ \E i \in 1..MaxKeys, p \in Passphrases : KeyPair_get_private_key(i, p)
    \/ \E kid \in KeyIds, p \in Passphrases, c \in Callers :
          validate_key_passphrase(kid, p, c)
    \/ \E kid \in KeyIds, p \in Passphrases, c \in Callers :
          generate_key_backup(kid, p, c)

SpecPass == Init /\ [][NextPass]_vars

(***************************************************************************)
(* Certificate state machine.                                              *)
(***************************************************************************)
NextCert ==
    \/ \E u \in Users : create_key_pair(u, "rsa", 2048, "both", "p", NoTime)
    \/ \E u \in Users, kp \in 1..MaxKeys, p \in {"p", "q"}, d \in DayChoices :
          create_certificate(u, kp, p, d, NoId, NoId, Dn(u))
    \/ \E c \in 1..MaxCerts : Certificate_revoke(c)
    \/ \E c \in 1..MaxCerts : Certificate_suspend(c)
    \/ \E c \in 1..MaxCerts : Certificate_reactivate(c)
    \/ Tick

SpecCert == Init /\ [][NextCert]_vars

(***************************************************************************)
(* Signature lifecycle against the lifecycle of its key and certificate.   *)
(***************************************************************************)
(* what a caller passes as public_key: nothing, the public key of a row,  *)
(* or a key of no row                                                     *)
ForeignKey == MaxKeys + 1
PublicKeys == {NoId} \cup (1..MaxKeys) \cup {ForeignKey}

NextSign ==
    \/ create_key_pair(1, "rsa", 2048, "both", "p", NoTime)
    \/ \E kid \in KeyIds : revoke_key(kid, NoUser)
    \/ \E kp \in 1..MaxKeys : create_certificate(1, kp, "p", 0, NoId, NoId, Dn(1))
    \/ \E c \in 1..MaxCerts : Certificate_revoke(c)
    \/ \E kp \in 1..MaxKeys, p \in {"p", "q"}, cref \in 0..MaxCerts :
          create_signature(1, Bytes("a"), kp, "rsa_pkcs1", "sha256", p, cref)
    \/ \E i \in 1..MaxSigs, d \in Payloads, pk \in PublicKeys :
          VerifySignature(i, d, pk)
    \/ \E i \in 1..MaxSigs : revoke_signature(i)
    \/ \E i \in 1..MaxSigs : add_timestamp(i)
    \/ Tick

SpecSign == Init /\ [][NextSign]_vars

(***************************************************************************)
(* Signing and verifying over every scheme, digest and payload.            *)
(***************************************************************************)
NextVerify ==
    \/ \E t \in KeyTypes : keys = <<>> /\ create_key_pair(1, t, UsualSize(t), "both", "p", NoTime)
    \/ \E kp \in 1..MaxKeys, d \in {Bytes("a"), Str("a")},
          st \in SignatureTypes, h \in HashAlgorithms :
          create_signature(1, d, kp, st, h, "p", NoId)
    \/ \E i \in 1..MaxSigs, d \in Payloads, pk \in {NoId, 1, ForeignKey} :
          VerifySignature(i, d, pk)

SpecVerify == Init /\ [][NextVerify]_vars

(***************************************************************************)
(* Issuing certificates and verifying them against an issuer.              *)
(***************************************************************************)
NextIssue ==
    \/ \E t \in KeyTypes : create_key_pair(1, t, UsualSize(t), "both", "p", NoTime)
    \/ \E u \in Users, kp \in 1..MaxKeys, p \in {"p", "q"}, d \in {0, 1},
          ik \in {NoId, ForeignKey} :
          create_certificate(u, kp, p, d, NoId, ik, Dn(u))
    \/ \E c \in 1..MaxCerts, issuer \in 0..MaxCerts : VerifyCertificate(c, issuer)
    \/ Tick

SpecIssue == Init /\ [][NextIssue]_vars

(***************************************************************************)
(* Asymmetric encryption and decryption over key sizes and lengths.        *)
(***************************************************************************)
NextRsa ==
    \/ \E k \in RsaKeySizes : \E len \in PlainLengths(k) :
          EncryptAsymmetric(k, 1, len)
    \/ \E n \in {1, ForeignKey} : DecryptAsymmetric(n)

SpecRsa == Init /\ [][NextRsa]_vars

(***************************************************************************)
(* The expiry sweep over keys with and without an expiry time.             *)
(***************************************************************************)
NextSweep ==
    \/ \E u \in Users, exp \in {NoTime} \cup Times :
          create_key_pair(u, "rsa", 2048, "both", "p", exp)
    \/ \E kid \in KeyIds : revoke_key(kid, NoUser)
    \/ \E kid \in KeyIds : archive_key(kid, NoUser)
    \/ cleanup_expired_keys
    \/ Tick

SpecSweep == Init /\ [][NextSweep]_vars

(***************************************************************************)
(* KeyManager operations called by the owner and by another user.          *)
(***************************************************************************)
NextOwner ==
    \/ \E u \in Users : create_key_pair(u, "rsa", 2048, "both", "p", 0)
    \/ \E kid \in KeyIds, c \in Users : export_public_key(kid, "PEM", c)
    \/ \E kid \in KeyIds, c \in Users : revoke_key(kid, c)
    \/ \E kid \in KeyIds, c \in Users : archive_key(kid, c)
    \/ \E kid \in KeyIds, c \in Users : extend_key_expiry(kid, 1, c)
    \/ \E kid \in KeyIds, c \in Users : generate_key_backup(kid, "p", c)

SpecOwner == Init /\ [][NextOwner]_vars

(***************************************************************************)
(* Restoring a key from a backup and using the restored key.               *)
(***************************************************************************)
NextRestore ==
    \/ \E u \in Users, t \in KeyTypes : create_key_pair(u, t, UsualSize(t), "both", "p", NoTime)
    \/ \E kid \in KeyIds, u \in Users, pem \in BackupPems :
          restore_key_from_backup(kid, u, pem, _generate_fingerprint(pem))
    \/ \E i \in 1..MaxKeys, p \in Passphrases : KeyPair_get_private_key(i, p)
    \/ \E kid \in KeyIds, p \in Passphrases, c \in Callers :
          validate_key_passphrase(kid, p, c)
    \/ \E kid \in KeyIds, p \in Passphrases :
          generate_key_backup(kid, p, NoUser)
    \/ \E kp \in 1..MaxKeys, p \in Passphrases :
          create_signature(1, Bytes("a"), kp, "rsa_pkcs1", "sha256", p, NoId)

SpecRestore == Init /\ [][NextRestore]_vars

(***************************************************************************)
(* Creating keys over algorithms, sizes and usages inside and outside the  *)
(* lists _validate_key_parameters accepts.                                 *)
(***************************************************************************)
KeyTypeChoices == KeyTypes \cup {"dsa"}
KeySizeChoices == RsaKeySizes \cup EccKeySizes \cup {512, 8192}
KeyUsageChoices == KeyUsages \cup {"auth"}

NextCreate ==
    \/ \E t \in KeyTypeChoices, size \in KeySizeChoices,
          usage \in KeyUsageChoices, p \in {"p", ""} :
          create_key_pair(1, t, size, usage, p, NoTime)
    \/ \E kid \in KeyIds : revoke_key(kid, NoUser)
    \/ \E kid \in KeyIds : archive_key(kid, NoUser)

SpecCreate == Init /\ [][NextCreate]_vars

(***************************************************************************)
(* Status and verification counters of a signature record.                 *)
(***************************************************************************)
NextRecord ==
    \/ keys = <<>> /\ create_key_pair(1, "rsa", 2048, "both", "p", NoTime)
    \/ certs = <<>> /\ create_certificate(1, 1, "p", 0, NoId, NoId, Dn(1))
    \/ \E cref \in {NoId, 1} :
          sigs = <<>> /\ create_signature(1, Bytes("a"), 1, "rsa_pkcs1",
                                          "sha256", "p", cref)
    \/ \E i \in 1..MaxSigs, d \in {Bytes("a"), Bytes("b")},
          pk \in {NoId, ForeignKey} : VerifySignature(i, d, pk)
    \/ \E i \in 1..MaxSigs : revoke_signature(i)
    \/ \E i \in 1..MaxSigs : add_timestamp(i)
    \/ \E i \in 1..MaxSigs : add_metadata(i, "status", "valid")
    \/ Tick

SpecRecord == Init /\ [][NextRecord]_vars

(***************************************************************************)
(* The expiry sweep interleaved with other requests on the same keys.      *)
(***************************************************************************)
NextRace ==
    \/ create_key_pair(1, "rsa", 2048, "both", "p", 0)
    \/ \E kid \in KeyIds : revoke_key(kid, NoUser)
    \/ \E kid \in KeyIds : archive_key(kid, NoUser)
    \/ \E kid \in KeyIds : extend_key_expiry(kid, 1, NoUser)
    \/ \E w \in Sweepers : SweepQuery(w)
    \/ \E w \in Sweepers : SweepWrite(w)
    \/ \E w \in Sweepers : SweepReturn(w)
    \/ Tick

SpecRace == Init /\ [][NextRace]_vars

(***************************************************************************)
(* Chains of certificates: issuing under an issuer certificate and         *)
(* generating a stored certificate again.                                  *)
(***************************************************************************)
(* what a caller passes as issuer_key beside issuer certificate i: nothing, *)
(* the private key of that certificate, or another key                     *)
IssuerKeys(i) ==
    IF i \in 1..Len(certs) THEN {NoId, certs[i].public_key, ForeignKey}
    ELSE {NoId}

NextChain ==
    \/ create_key_pair(1, "rsa", 2048, "both", "p", NoTime)
    \/ \E kp \in 1..MaxKeys, d \in {0, 1}, i \in 0..MaxCerts,
          dn \in {Dn(1), RawDn(1)} :
          \E ik \in IssuerKeys(i) : create_certificate(1, kp, "p", d, i, ik, dn)
    \/ \E c \in 1..MaxCerts, p \in {"p", "q"}, d \in DayChoices, i \in 0..MaxCerts :
          \E ik \in IssuerKeys(i) : Certificate_generate_certificate(c, p, d, i, ik)
    \/ \E c \in 1..MaxCerts, i \in 0..MaxCerts : VerifyCertificate(c, i)
    \/ Tick

SpecChain == Init /\ [][NextChain]_vars

(***************************************************************************)
(* A certificate across the end of its validity window.                    *)
(***************************************************************************)
NextLapse ==
    \/ certs = <<>> /\ create_key_pair(1, "rsa", 2048, "both", "p", NoTime)
    \/ \E d \in {0, 1} : create_certificate(1, 1, "p", d, NoId, NoId, Dn(1))
    \/ \E c \in 1..MaxCerts, i \in 0..MaxCerts : VerifyCertificate(c, i)
    \/ \E c \in 1..MaxCerts : Certificate_revoke(c)
    \/ \E c \in 1..MaxCerts : Certificate_suspend(c)
    \/ \E c \in 1..MaxCerts : Certificate_reactivate(c)
    \/ \E c \in 1..MaxCerts : get_cert_info(c)
    \/ \E c \in 1..MaxCerts : Certificate_to_dict(c)
    \/ Tick

SpecLapse == Init /\ [][NextLapse]_vars

(***************************************************************************)
(* Restoring from backup data whose fields the caller chose freely.        *)
(***************************************************************************)
(* the 'public_key' and 'fingerprint' values a backup dictionary can hold: *)
(* those of a key of this store and those of a key from elsewhere          *)
ArbitraryPems == {PublicPem(n) : n \in 1..(MaxKeys + 1)}
ArbitraryFingerprints == {_generate_fingerprint(pem) : pem \in ArbitraryPems}

NextBackup ==
    \/ \E u \in Users, exp \in {NoTime, 0} :
          create_key_pair(u, "rsa", 2048, "both", "p", exp)
    \/ \E kid \in KeyIds, u \in Users, pem \in ArbitraryPems,
          fp \in ArbitraryFingerprints : restore_key_from_backup(kid, u, pem, fp)
    \/ \E kid \in KeyIds : revoke_key(kid, NoUser)
    \/ \E kid \in KeyIds : archive_key(kid, NoUser)
    \/ \E kid \in KeyIds, d \in {0, 1} : extend_key_expiry(kid, d, NoUser)
    \/ cleanup_expired_keys
    \/ Tick

SpecBackup == Init /\ [][NextBackup]_vars

(***************************************************************************)
(* Properties of the key lifecycle (SpecKM).                               *)
(***************************************************************************)
Rows == 1..Len(keys)

(* C5: archive_key succeeds only on a revoked or expired key; on an active *)
(* or an already archived key it fails and leaves the key as it was.       *)
C5_ArchiveOnlyFromRevokedOrExpired ==
    [][(res'.op = "archive_key" /\ res'.id # NoId) =>
         IF keys[res'.id].status \in {"revoked", "expired"}
         THEN res'.ok
         ELSE ~res'.ok /\ keys' = keys]_vars

(* C6: extend_key_expiry changes expires_at only of an active key; on an   *)
(* expired, revoked or archived key it fails and changes neither           *)
(* expires_at nor status.                                                  *)
C6_ExtendOnlyWhenActive ==
    [][\A i \in Rows :
         /\ keys'[i].expires_at # keys[i].expires_at =>
               /\ keys[i].status = "active"
               /\ res'.op = "extend_key_expiry" /\ res'.ok /\ res'.id = i
         /\ (res'.op = "extend_key_expiry" /\ res'.id = i
             /\ keys[i].status # "active") =>
               /\ ~res'.ok
               /\ keys'[i].expires_at = keys[i].expires_at
               /\ keys'[i].status = keys[i].status]_vars

C6_Witness ==
    /\ res.op = "extend_key_expiry" /\ ~res.ok /\ res.id # NoId
    /\ keys[res.id].status = "expired"

(* C7: a key that has left active is never active again, and revoke_key on *)
(* a key that is not active fails and leaves the key unchanged.            *)
C7_NeverActiveAgain ==
    [][/\ \A i \in Rows :
            keys[i].status # "active" => keys'[i].status # "active"
       /\ (res'.op = "revoke_key" /\ res'.id # NoId
           /\ keys[res'.id].status # "active") =>
             ~res'.ok /\ keys' = keys]_vars

C7_Witness ==
    /\ res.op = "revoke_key" /\ ~res.ok /\ res.id # NoId
    /\ keys[res.id].status = "archived"

(***************************************************************************)
(* Properties of passphrase custody (SpecPass).                            *)
(***************************************************************************)
Generated(k) == k.private_key_encrypted # EmptyText
SealedBy(k) == k.private_key_encrypted[3]

(* C8: for a key generated with passphrase p, get_private_key(q) hands out *)
(* the private key exactly when q = p and otherwise fails with no key      *)
(* material, and verify_passphrase(q) is true exactly when q = p.          *)
C8_PassphraseGatesPrivateKey ==
    /\ (res.op = "get_private_key" /\ Generated(keys[res.id])) =>
          /\ res.ok <=> (res.out.pass = SealedBy(keys[res.id]))
          /\ res.ok => PublicPem(res.out.key) = keys[res.id].public_key_pem
          /\ ~res.ok => res.out.key = NoId
    /\ (res.op = "validate_key_passphrase" /\ res.id # NoId
        /\ Generated(keys[res.id])) =>
          (res.ok <=> (res.out.pass = SealedBy(keys[res.id])))

C8_Witness ==
    /\ res.op = "get_private_key" /\ ~res.ok
    /\ Generated(keys[res.id]) /\ SealedBy(keys[res.id]) = "p"
    /\ res.out.pass = "q"

(***************************************************************************)
(* Properties of signing and verifying (SpecSign, SpecCert, SpecVerify).   *)
(***************************************************************************)
(* C1: once a key is revoked, every attempt to sign with it fails, stores  *)
(* no signature and does not increase the key's usage_count.               *)
C1_RevokedKeyCannotSign ==
    [][(res'.op = "create_signature" /\ keys[res'.id].status = "revoked") =>
         /\ ~res'.ok
         /\ sigs' = sigs
         /\ keys'[res'.id].usage_count = keys[res'.id].usage_count]_vars

(* the payload a record was made from: only bytes can be signed *)
OriginalData(s) == Bytes(s.original_data_hash[2])

(* C2: verifying the original data of a record whose certificate has been  *)
(* revoked returns false and reports the revocation.                       *)
C2_RevokedCertificateFailsVerify ==
    (/\ res.op = "verify_signature"
     /\ res.out.pk = NoId
     /\ res.out.data = OriginalData(sigs[res.id])
     /\ sigs[res.id].certificate_id # NoId
     /\ certs[sigs[res.id].certificate_id].status = "revoked")
    => (~res.ok /\ res.out.reason = "revoked")

(* C3: a revoked certificate stays revoked under revoke, suspend and       *)
(* reactivate at any clock value.                                          *)
C3_CertificateRevokedIsTerminal ==
    [][\A c \in 1..Len(certs) :
         certs[c].status = "revoked" => certs'[c].status = "revoked"]_vars

(* C4: a revoked signature record stays revoked under verify_signature and *)
(* add_timestamp.                                                          *)
C4_SignatureRevokedIsTerminal ==
    [][\A i \in 1..Len(sigs) :
         sigs[i].status = "revoked" => sigs'[i].status = "revoked"]_vars

(* C9: verify_signature on data whose hash differs from original_data_hash *)
(* returns false for tampering before the public-key lookup and before the *)
(* signature mathematics, whatever the scheme, digest and supplied key.    *)
C9_HashMismatchFailsFirst ==
    (/\ res.op = "verify_signature"
     /\ _calculate_data_hash(sigs[res.id].hash_algorithm, res.out.data)
          # sigs[res.id].original_data_hash)
    => (/\ ~res.ok
        /\ res.out.reason = "tampered"
        /\ ~res.out.lookup
        /\ ~res.out.math)

C9_Witness ==
    /\ res.op = "verify_signature" /\ res.out.reason = "tampered"
    /\ res.out.pk = ForeignKey
    /\ sigs[res.id].signature_type = "rsa_pss"
    /\ sigs[res.id].hash_algorithm = "sha3_384"

(* C10: with an active key of the matching family and no certificate, a    *)
(* record made by sign_data(m) verifies on m and fails on every m' # m,    *)
(* for every scheme and digest.                                            *)
C10_SignVerifyRoundTrip ==
    (/\ res.op = "verify_signature"
     /\ res.out.pk = NoId
     /\ sigs[res.id].certificate_id = NoId
     /\ keys[sigs[res.id].key_pair_id].status = "active")
    => (res.ok <=> res.out.data = OriginalData(sigs[res.id]))

C10_Witness ==
    /\ res.op = "verify_signature" /\ res.ok /\ res.out.pk = NoId
    /\ sigs[res.id].signature_type = "ecdsa"
    /\ sigs[res.id].hash_algorithm = "sha3_512"
    /\ sigs[res.id].status = "invalid"

(***************************************************************************)
(* Properties of certificate verification (SpecIssue).                     *)
(***************************************************************************)
InWindow(c) == c.valid_from <= now /\ now <= c.valid_until

(* C11: verify_certificate returns false outside the validity window, and  *)
(* true inside it when no issuer is supplied or the certificate's          *)
(* signature verifies under the supplied issuer's public key.              *)
C11_VerifyCertificate ==
    res.op = "verify_certificate" =>
       /\ ~InWindow(certs[res.id]) => ~res.ok
       /\ (/\ InWindow(certs[res.id])
           /\ \/ res.out.issuer = NoId
              \/ SignedBy(certs[res.id], certs[res.out.issuer].public_key))
          => res.ok

(***************************************************************************)
(* Properties of the CryptoEngine (SpecRsa).                               *)
(***************************************************************************)
(* C12: for every RSA key size and plaintext length encrypt_asymmetric     *)
(* succeeds, takes the direct path exactly when the plaintext fits the     *)
(* key's single-block capacity, and decrypt_asymmetric with the matching   *)
(* private key returns the plaintext.                                      *)
C12_EncryptDecryptRoundTrip ==
    /\ res.op = "encrypt_asymmetric" =>
          /\ res.ok
          /\ res.out.path = "direct"
                <=> res.out.plain.len <= OaepCapacity(res.id)
    /\ (res.op = "decrypt_asymmetric" /\ res.out.with = res.out.key) =>
          res.out.result = res.out.plain

(***************************************************************************)
(* Properties of the expiry sweep (SpecSweep).                             *)
(***************************************************************************)
Overdue(k) == k.status = "active" /\ k.expires_at # NoTime /\ k.expires_at < now

(* C13: cleanup_expired_keys sets to expired exactly the active keys whose *)
(* expires_at is before now, returns their number and leaves every other   *)
(* key unchanged; run again at the same clock it returns 0 and changes     *)
(* nothing.                                                                *)
C13_SweepExactAndIdempotent ==
    [][res'.op = "cleanup_expired_keys" =>
         /\ Len(keys') = Len(keys)
         /\ \A i \in Rows :
               keys'[i] = IF Overdue(keys[i])
                          THEN [keys[i] EXCEPT !.status = "expired"]
                          ELSE keys[i]
         /\ res'.ok /\ res'.id = Cardinality({i \in Rows : Overdue(keys[i])})
         /\ res.op = "cleanup_expired_keys" => res'.id = 0 /\ keys' = keys]_vars

C13_Witness ==
    /\ res.op = "cleanup_expired_keys" /\ res.id = 1
    /\ keys[1].status = "expired" /\ keys[1].expires_at < now

(***************************************************************************)
(* Properties of key ownership (SpecOwner).                                *)
(***************************************************************************)
(* key kid exists and belongs to another user than c *)
Foreign(kid, c) ==
    get_by_key_id(kid) # NoId /\ keys[get_by_key_id(kid)].user_id # c

(* a step of one of the owner-gated operations on key kid for caller c *)
OwnerGated(kid, c) ==
    \/ export_public_key(kid, "PEM", c)
    \/ revoke_key(kid, c)
    \/ archive_key(kid, c)
    \/ extend_key_expiry(kid, 1, c)
    \/ generate_key_backup(kid, "p", c)

C15_RestoredKeyHasNoPrivateKey ==
    [][/\ (res'.op = "restore_key_from_backup" /\ res'.ok) =>
             \A p \in Passphrases \cup {RandomPass} :
                /\ get_private_key(keys'[res'.id], p) = NoId
                /\ ~verify_passphrase(keys'[res'.id], p)
       /\ (res'.op = "get_private_key" /\ ~Generated(keys'[res'.id])) =>
             ~res'.ok /\ res'.out.key = NoId
       /\ (res'.op = "validate_key_passphrase" /\ res'.id # NoId
           /\ ~Generated(keys'[res'.id])) => ~res'.ok
       /\ (res'.op = "create_signature" /\ ~Generated(keys[res'.id])) =>
             ~res'.ok /\ sigs' = sigs /\ keys' = keys
       /\ \A kid \in KeyIds, u \in Users, pem \in BackupPems :
             (/\ get_by_key_id(kid) # NoId
              /\ restore_key_from_backup(kid, u, pem, _generate_fingerprint(pem)))
             => ~res'.ok /\ keys' = keys]_vars

C15_Witness ==
    /\ res.op = "create_signature" /\ ~res.ok
    /\ ~Generated(keys[res.id])
    /\ keys[res.id].public_key_pem = PublicPem(1)

(***************************************************************************)
(* Properties of key creation (SpecCreate).                                *)
(***************************************************************************)
Allowed(t, size, usage) ==
    /\ \/ t = "rsa" /\ size \in {1024, 2048, 3072, 4096}
       \/ t = "ecc" /\ size \in {256, 384, 521}
    /\ usage \in {"encryption", "signing", "both"}

(* C16: create_key_pair with an algorithm, size or usage outside the       *)
(* allow-list raises on validation and stores nothing; inside the          *)
(* allow-list the key it stores has the requested algorithm and size.      *)
C16_KeyParametersAllowList ==
    [][\A t \in KeyTypeChoices, size \in KeySizeChoices,
          usage \in KeyUsageChoices, p \in {"p", ""} :
         create_key_pair(1, t, size, usage, p, NoTime) =>
            IF ~Allowed(t, size, usage)
            THEN ~res'.ok /\ res'.out = "invalid" /\ keys' = keys
            ELSE res'.ok =>
                   /\ keys' = Append(keys, keys'[res'.id])
                   /\ keys'[res'.id].key_type = t
                   /\ keys'[res'.id].key_size = size]_vars

C16_Witness ==
    /\ res.op = "create_key_pair" /\ res.ok
    /\ keys[res.id].key_type = "ecc" /\ keys[res.id].key_size = 521

(***************************************************************************)
(* Properties of the certificate lifecycle (SpecCert).                     *)
(***************************************************************************)
(* C17: reactivate on a certificate whose validity window has elapsed is   *)
(* reported as a failure and leaves the status unchanged.                  *)
C17_ReactivateElapsedFails ==
    [][(res'.op = "cert_reactivate" /\ Certificate_is_expired(certs[res'.id]))
         => (~res'.ok /\ certs' = certs)]_vars

(***************************************************************************)
(* Properties of the signature record (SpecRecord).                        *)
(***************************************************************************)
(* C18: a signature record that is invalid, expired or revoked never       *)
(* becomes valid again under verify_signature, add_timestamp, add_metadata *)
(* and revoke_signature.                                                   *)
C18_SignatureNeverValidAgain ==
    [][\A i \in 1..Len(sigs) :
         sigs[i].status # "valid" => sigs'[i].status # "valid"]_vars

C18_Witness ==
    /\ res.op = "verify_signature" /\ res.ok
    /\ sigs[res.id].status = "invalid"

(***************************************************************************)
(* Properties of the interleaved sweep (SpecRace).                         *)
(***************************************************************************)
(* C19: whatever revoke_key, archive_key, extend_key_expiry or a second    *)
(* sweep does between a sweep's query and its writes, every status change  *)
(* the sweep writes is from active to expired: it never overwrites revoked *)
(* or archived.                                                            *)
C19_SweepWritesOnlyActiveToExpired ==
    [][sweep' # sweep =>
         \A i \in Rows :
            keys'[i].status # keys[i].status =>
               keys[i].status = "active" /\ keys'[i].status = "expired"]_vars

(* C20: verify_signature increases verified_count by one and sets          *)
(* last_verified_at to the clock exactly when it returns true; every false *)
(* return leaves both unchanged.                                           *)
C20_VerifyCountsOnlySuccess ==
    [][res'.op = "verify_signature" =>
         IF res'.ok
         THEN /\ sigs'[res'.id].verified_count = sigs[res'.id].verified_count + 1
              /\ sigs'[res'.id].last_verified_at = now
         ELSE /\ sigs'[res'.id].verified_count = sigs[res'.id].verified_count
              /\ sigs'[res'.id].last_verified_at = sigs[res'.id].last_verified_at]_vars

(***************************************************************************)
(* Properties of certificate chains (SpecChain).                           *)
(***************************************************************************)
(* C21: a certificate issued under an issuer certificate is signed with    *)
(* the key of that issuer certificate, whatever issuer_key was passed, and *)
(* verify_certificate against the issuer returns true inside the validity  *)
(* window; a certificate issued without an issuer is signed with its own   *)
(* key and has issuer DN equal to subject DN.                              *)
C21_SignedByIssuerKey ==
    /\ \A c \in 1..Len(certs) :
          IF certs[c].parent_cert_id # NoId
          THEN SignedBy(certs[c], certs[certs[c].parent_cert_id].public_key)
          ELSE /\ SignedBy(certs[c], certs[c].public_key)
               /\ certs[c].issuer_dn = certs[c].subject_dn
    /\ (/\ res.op = "verify_certificate"
        /\ res.out.issuer # NoId
        /\ res.out.issuer = certs[res.id].parent_cert_id
        /\ InWindow(certs[res.id])) => res.ok

(* C22: every certificate that create_certificate or generate_certificate  *)
(* produces, for every validity_days they accept, has valid_until strictly *)
(* later than valid_from.                                                  *)
C22_ValidUntilAfterValidFrom ==
    [][(res'.op \in {"create_certificate", "generate_certificate"} /\ res'.ok)
         => certs'[res'.id].valid_until > certs'[res'.id].valid_from]_vars

(* the certificates reached from c by following parent_cert_id at least    *)
(* once, over at most n links                                              *)
RECURSIVE Ancestors(_, _)
Ancestors(c, n) ==
    IF n = 0 \/ certs[c].parent_cert_id = NoId THEN {}
    ELSE {certs[c].parent_cert_id}
            \cup Ancestors(certs[c].parent_cert_id, n - 1)

(* C23: after any sequence of issuances the parent_cert_id links are       *)
(* acyclic: no certificate is its own ancestor.                            *)
C23_ParentLinksAcyclic ==
    \A c \in 1..Len(certs) : c \notin Ancestors(c, Len(certs))

(***************************************************************************)
(* Properties of private-key disclosure (SpecPass).                        *)
(***************************************************************************)
(* C24: within get_private_key the container is opened only after a        *)
(* successful verify_passphrase of the supplied passphrase; when that      *)
(* check fails the container is never handed to the decryption.            *)
C24_VerifyPassphraseBeforeDisclosure ==
    res.op = "get_private_key" =>
       /\ \A j \in 1..Len(res.out.steps) :
             res.out.steps[j] = "load_pem_private_key" =>
                \E i \in 1..(j - 1) : res.out.steps[i] = "verify_passphrase"
       /\ ~verify_passphrase(keys[res.id], res.out.pass) =>
             \A j \in 1..Len(res.out.steps) :
                res.out.steps[j] # "load_pem_private_key"

(***************************************************************************)
(* Properties of certificate expiry (SpecLapse).                           *)
(***************************************************************************)
CertificateOps ==
    {"verify_certificate", "cert_revoke", "cert_suspend", "cert_reactivate",
     "get_cert_info", "cert_to_dict"}

(* C25: after verify_certificate, revoke, suspend, reactivate,             *)
(* get_cert_info or to_dict performed when now > valid_until, the stored   *)
(* status of the certificate is not valid.                                 *)
C25_ElapsedCertificateNotValid ==
    [][(res'.op \in CertificateOps /\ now > certs[res'.id].valid_until)
         => certs'[res'.id].status # "valid"]_vars

(***************************************************************************)
(* Properties of certificate ownership (SpecCert).                         *)
(***************************************************************************)
(* C26: create_certificate succeeds only when the key pair belongs to the  *)
(* user it is called for, so every stored certificate has the user_id of   *)
(* its key pair.                                                           *)
C26_CertificateOwnerIsKeyOwner ==
    \A c \in 1..Len(certs) :
        certs[c].user_id = keys[certs[c].key_pair_id].user_id

(***************************************************************************)
(* Properties of verification against the record status (SpecRecord).      *)
(***************************************************************************)
(* C27: verify_signature returns True only for a record whose status is    *)
(* valid; for a revoked, invalid or expired record it returns False even   *)
(* when the data matches and the signature mathematics succeeds.           *)
C27_VerifyOnlyValidRecord ==
    [][(res'.op = "verify_signature" /\ res'.ok)
         => sigs[res'.id].status = "valid"]_vars

(***************************************************************************)
(* Properties of failed key-manager operations (SpecKM).                   *)
(***************************************************************************)
KeyManagerOps ==
    {"create_key_pair", "export_public_key", "revoke_key", "archive_key",
     "extend_key_expiry", "restore_key_from_backup"}

(* C28: a KeyManager operation that ends in an error leaves the key pairs  *)
(* as they were; export_public_key with an unsupported format raises       *)
(* without changing usage_count or last_used_at.                           *)
C28_FailedOperationChangesNothing ==
    [][(res'.op \in KeyManagerOps /\ ~res'.ok) => keys' = keys]_vars

(***************************************************************************)
(* Properties of the stored fingerprint (SpecBackup).                      *)
(***************************************************************************)
(* C29: after any sequence of create, restore_key_from_backup with         *)
(* arbitrary backup data, revoke, archive, extend and sweep, the           *)
(* fingerprint of every stored key pair is the fingerprint derived from    *)
(* its own public_key_pem.                                                 *)
C29_FingerprintOfOwnPublicKey ==
    \A i \in 1..Len(keys) :
        keys[i].fingerprint = _generate_fingerprint(keys[i].public_key_pem)

(***************************************************************************)
(* Properties of the extension of a key's expiry (SpecKM).                 *)
(***************************************************************************)
(* C30: extend_key_expiry never moves the expiry earlier: for every days   *)
(* it accepts, zero and negative included, and every active key,           *)
(* expires_at afterwards is not before expires_at before, and for a key    *)
(* without expires_at the new expires_at is not before now.                *)
C30_ExtendNeverMovesExpiryEarlier ==
    [][(res'.op = "extend_key_expiry" /\ res'.ok)
         => LET before == keys[res'.id].expires_at
                after == keys'[res'.id].expires_at
            IN IF before # NoTime THEN after >= before ELSE after >= now]_vars

====
